---------------------------- MODULE Spec2Model ----------------------------
(***************************************************************************)
(* The snarkOS network crawler (src/.crawler/src/crawler.rs): the churn    *)
(* task, the inbound message path (read_message, process_message and the   *)
(* handlers) and the detached connection attempts, over the Known Network  *)
(* Registry.  The Registry (known_network.rs), the constants (constants.rs)*)
(* and the message codec (ClientMessage) are not among the source files;   *)
(* their definitions follow the specification's sections 3, 4.1, 4.2, 6.   *)
(***************************************************************************)
EXTENDS Integers, Sequences, FiniteSets, TLC

(***************************************************************************)
(* Bounds of the model.                                                    *)
(***************************************************************************)
NumPeers == 2          \* remote listening addresses 1..NumPeers
MaxTime == 2           \* the clock runs over 0..MaxTime
MaxHeight == 1         \* block heights reported in a Ping: 1..MaxHeight
MaxTasks == 1          \* detached PeerResponse handler tasks alive together
MaxFrames == 1         \* frames read over a run
MaxAttempts == 2       \* detached connect tasks launched over a run
MaxUpdates == 3        \* calls of update_connections on the Registry alone
MaxPending == 1        \* connect tasks per address waiting to start (LiveSpec)

(***************************************************************************)
(* Addresses.  Self is the crawler's own listening address                 *)
(* (node().listening_addr()).  A session the crawler opened has the peer's *)
(* listening address as its connected address; a session a peer opened has *)
(* an ephemeral connected address.                                         *)
(***************************************************************************)
Self == 0
Peers == 1..NumPeers
Addr == {Self} \cup Peers
Eph == 100
ConnAddr == Peers \cup {Eph}
NoAddr == -1
Unset == -1

(***************************************************************************)
(* Program constants (constants.rs, snarkos_synthetic_node).               *)
(***************************************************************************)
REVISIT_INTERVAL == 2
NUM_CONCURRENT_CONNECTION_ATTEMPTS == 2
MESSAGE_VERSION == 2
MESSAGE_LENGTH_PREFIX_SIZE == 4
BufLen == 64 * 1024
ACCEPTED_MESSAGE_IDS == {2, 3, 4, 5, 6, 7, 8}

VARIABLES
    known_network,  \* the Registry: [nodes, connections]
    peers,          \* the session table: connected address -> listening address
    connecting,     \* addresses with a connect in progress (is_connecting)
    spawned,        \* detached connect tasks that have not called connect yet
    tasks,          \* detached PeerResponse handler tasks
    churn,          \* the churn task's position in its loop
    now,            \* the clock
    ev,             \* what the last step did: [in, res, sent]
    wire,           \* codec: the frame written last
    rd,             \* codec: what read_message made of it
    frames,         \* frames read so far
    attempts,       \* connect tasks launched so far
    requests        \* sessions with a PeerRequest sent and not answered

vars == <<known_network, peers, connecting, spawned, tasks, churn, now, ev, wire, rd,
          frames, attempts, requests>>

(***************************************************************************)
(* The Known Network Registry (specification 3 and 4.1).                   *)
(***************************************************************************)
NewNode ==
    [known |-> TRUE, last_seen |-> Unset, last_connected |-> Unset,
     height |-> Unset, received_peers |-> FALSE, state |-> "Unknown"]

\* an address the Registry holds no Node for
Absent == [NewNode EXCEPT !.known = FALSE]

NodeSet(kn) == {a \in Addr : kn.nodes[a].known}

\* A stored Connection record, as it was inserted: <<source, target>>.
Connection(source, target) == <<source, target>>

\* the unordered pair a Connection stands for
Edge(e) == {e[1], e[2]}

Edges(kn) == {Edge(e) : e \in kn.connections}

Endpoints(kn) == UNION Edges(kn)

\* ensure a Node exists for addr
observe_node(kn, addr) ==
    IF addr \in NodeSet(kn) THEN kn
    ELSE [kn EXCEPT !.nodes[addr] = NewNode]

EmptyNetwork == [nodes |-> [a \in Addr |-> Absent], connections |-> {}]

\* update_connections taking <<src, p>> and <<p, src>> for two edges
update_connections_ordered(kn, src, addrs) ==
    LET new == addrs \ {src}
        touched == IF new = {} THEN {} ELSE new \cup {src}
    IN  [nodes |-> [a \in Addr |->
                       IF a \in touched \ NodeSet(kn) THEN NewNode ELSE kn.nodes[a]],
         connections |-> kn.connections \cup {Connection(src, p) : p \in new}]

\* for each p in peers distinct from src: both Nodes exist, edge {src, p}
\* inserted if absent
update_connections(kn, src, addrs) ==
    LET new == addrs \ {src}
        touched == IF new = {} THEN {} ELSE new \cup {src}
        absent == {p \in new : {src, p} \notin Edges(kn)}
    IN  [nodes |-> [a \in Addr |->
                       IF a \in touched \ NodeSet(kn) THEN NewNode ELSE kn.nodes[a]],
         connections |-> kn.connections \cup {Connection(src, p) : p \in absent}]

\* received_peers = true, state = PendingDisconnect, last_seen = now
received_peers(kn, addr, t) ==
    LET k == observe_node(kn, addr)
    IN  [k EXCEPT !.nodes[addr].received_peers = TRUE,
                  !.nodes[addr].state = "PendingDisconnect",
                  !.nodes[addr].last_seen = t]

\* set height, last_seen = now
update_height(kn, addr, h, t) ==
    LET k == observe_node(kn, addr)
    IN  [k EXCEPT !.nodes[addr].height = h, !.nodes[addr].last_seen = t]

\* last_seen = now
update_timestamp(kn, addr, t) ==
    LET k == observe_node(kn, addr)
    IN  [k EXCEPT !.nodes[addr].last_seen = t]

Revisitable(meta, t) ==
    \/ meta.last_connected = Unset
    \/ t - meta.last_connected >= REVISIT_INTERVAL

\* addrs_to_connect returning the known addresses whatever their state
addrs_to_connect_any_state(kn, t) ==
    {a \in NodeSet(kn) : Revisitable(kn.nodes[a], t)}

\* known addresses not considered connected, last_connected unset or old
addrs_to_connect(kn, t) ==
    {a \in NodeSet(kn) :
        /\ kn.nodes[a].state # "PendingDisconnect"
        /\ Revisitable(kn.nodes[a], t)}

\* every node in PendingDisconnect ...
addrs_to_disconnect(kn) ==
    {a \in NodeSet(kn) : kn.nodes[a].state = "PendingDisconnect"}

\* ... moved to Idle as they are returned
after_addrs_to_disconnect(kn) ==
    [kn EXCEPT !.nodes =
        [a \in Addr |->
            IF kn.nodes[a].state = "PendingDisconnect"
            THEN [kn.nodes[a] EXCEPT !.state = "Idle"]
            ELSE kn.nodes[a]]]

should_be_connected_to(kn, addr, t) ==
    addr \in NodeSet(kn) => Revisitable(kn.nodes[addr], t)

(***************************************************************************)
(* The message codec (specification 4.2 and 6).                            *)
(*   frame   := len:u32le  payload:byte[len]                               *)
(*   payload := id:u16le   body:byte[len-2]                                *)
(* The length prefix and the message ID are modelled byte by byte.  A body *)
(* is modelled by its shape, its fields and its length in bytes: the body  *)
(* encodings belong to the client-message schema.                          *)
(***************************************************************************)
Kinds ==
    {"ChallengeRequest", "ChallengeResponse", "Disconnect", "PeerRequest",
     "PeerResponse", "Ping", "Pong"}

MessageId(kind) ==
    CASE kind = "ChallengeRequest" -> 2
      [] kind = "ChallengeResponse" -> 3
      [] kind = "Disconnect" -> 4
      [] kind = "PeerRequest" -> 5
      [] kind = "PeerResponse" -> 6
      [] kind = "Ping" -> 7
      [] kind = "Pong" -> 8

KindOfId(id) == CHOOSE k \in Kinds : MessageId(k) = id

\* The fields of a body by message kind; a garbage body has no shape.
Shape(kind) ==
    CASE kind = "PeerResponse" -> "addrs"
      [] kind = "Ping" -> "ping"
      [] kind = "PeerRequest" -> "empty"
      [] OTHER -> "opaque"

\* A message: the fields the crawler reads, and its body's encoded length.
\* header: the height the Ping's block header decodes to, Unset when the
\* header does not deserialize.
Message(kind, addrs, version, header, size) ==
    [kind |-> kind, addrs |-> addrs, version |-> version, header |-> header,
     size |-> size]

NoMessage == Message("none", {}, 0, Unset, 0)

\* n as `width` little-endian bytes
ToLE(n, width) == [i \in 1..width |-> (n \div (256 ^ (i - 1))) % 256]

RECURSIVE FromLE(_)
FromLE(bytes) ==
    IF bytes = << >> THEN 0
    ELSE Head(bytes) + 256 * FromLE(Tail(bytes))

Garbage(size) ==
    [shape |-> "garbage", addrs |-> {}, version |-> 0, header |-> Unset,
     size |-> size]

EncodeBody(m) ==
    [shape |-> Shape(m.kind), addrs |-> m.addrs, version |-> m.version,
     header |-> m.header, size |-> m.size]

\* ClientMessage::serialize: the message ID, then the body
Serialize(m) == [idb |-> ToLE(MessageId(m.kind), 2), body |-> EncodeBody(m)]

PayloadLen(payload) == Len(payload.idb) + payload.body.size

\* A frame on the wire: the 4-byte length prefix, the payload (its leading
\* bytes and its body) and whether the stream delivers the whole payload.
Frame(prefix, payload, complete) ==
    [prefix |-> prefix, idb |-> payload.idb, body |-> payload.body,
     complete |-> complete]

\* the writer: 4-byte little-endian length, then the payload
WriteFrame(m) ==
    LET payload == Serialize(m)
    IN  Frame(ToLE(PayloadLen(payload), MESSAGE_LENGTH_PREFIX_SIZE), payload, TRUE)

\* ClientMessage::deserialize on the `len` bytes read
Deserialize(len, idb, body) ==
    IF len < 2 \/ FromLE(idb) \notin {MessageId(k) : k \in Kinds}
    THEN [ok |-> FALSE, msg |-> NoMessage]
    ELSE LET kind == KindOfId(FromLE(idb))
         IN  IF body.shape # Shape(kind) \/ body.size # len - 2
             THEN [ok |-> FALSE, msg |-> NoMessage]
             ELSE [ok |-> TRUE,
                   msg |-> Message(kind, body.addrs, body.version, body.header,
                                   body.size)]

Result(tag, msg) == [tag |-> tag, msg |-> msg]

\* buf[..2] after the payload was read over the length prefix: a payload
\* shorter than 2 bytes leaves bytes of the prefix there.
BufHead(f, len) ==
    [i \in 1..2 |-> IF i <= len /\ i <= Len(f.idb) THEN f.idb[i] ELSE f.prefix[i]]

\* read_message rejecting a length equal to the buffer's
read_message_off_by_one(f) ==
    LET len == FromLE(SubSeq(f.prefix, 1, MESSAGE_LENGTH_PREFIX_SIZE))
    IN  IF len >= BufLen THEN Result("Err", NoMessage)
        ELSE IF ~f.complete THEN Result("None", NoMessage)
        ELSE LET message_id == FromLE(BufHead(f, len))
             IN  IF message_id \notin ACCEPTED_MESSAGE_IDS
                 THEN Result("Unhandled", NoMessage)
                 ELSE LET d == Deserialize(len, f.idb, f.body)
                      IN  IF d.ok THEN Result("Handled", d.msg)
                          ELSE Result("Err", NoMessage)

\* read_message without the filter on the message ID
read_message_no_filter(f) ==
    LET len == FromLE(SubSeq(f.prefix, 1, MESSAGE_LENGTH_PREFIX_SIZE))
    IN  IF len > BufLen THEN Result("Err", NoMessage)
        ELSE IF ~f.complete THEN Result("None", NoMessage)
        ELSE LET d == Deserialize(len, f.idb, f.body)
             IN  IF d.ok THEN Result("Handled", d.msg)
                 ELSE Result("Err", NoMessage)

\* read_message taking the length to count the prefix too
read_message_len_with_prefix(f) ==
    LET len == FromLE(SubSeq(f.prefix, 1, MESSAGE_LENGTH_PREFIX_SIZE))
    IN  IF len > BufLen THEN Result("Err", NoMessage)
        ELSE IF ~f.complete THEN Result("None", NoMessage)
        ELSE LET message_id == FromLE(BufHead(f, len))
             IN  IF message_id \notin ACCEPTED_MESSAGE_IDS
                 THEN Result("Unhandled", NoMessage)
                 ELSE LET d == Deserialize(len - MESSAGE_LENGTH_PREFIX_SIZE,
                                           f.idb, f.body)
                      IN  IF d.ok THEN Result("Handled", d.msg)
                          ELSE Result("Err", NoMessage)

read_message(f) ==
    LET len == FromLE(SubSeq(f.prefix, 1, MESSAGE_LENGTH_PREFIX_SIZE))
    IN  IF len > BufLen THEN Result("Err", NoMessage)
        ELSE IF ~f.complete THEN Result("None", NoMessage)
        ELSE LET message_id == FromLE(BufHead(f, len))
             IN  IF message_id \notin ACCEPTED_MESSAGE_IDS
                 THEN Result("Unhandled", NoMessage)
                 ELSE LET d == Deserialize(len, f.idb, f.body)
                      IN  IF d.ok THEN Result("Handled", d.msg)
                          ELSE Result("Err", NoMessage)

(***************************************************************************)
(* What peers put on the wire.                                             *)
(***************************************************************************)
PeerMessages ==
    {Message("Disconnect", {}, 0, Unset, 1),
     Message("PeerRequest", {}, 0, Unset, 0),
     Message("Pong", {}, 0, Unset, 3),
     \* the largest payload the buffer holds
     Message("Pong", {}, 0, Unset, BufLen - 2)}
    \cup {Message("PeerResponse", P, 0, Unset, Cardinality(P)) : P \in SUBSET Addr}
    \cup {Message("Ping", {}, v, h, 4) :
            v \in {MESSAGE_VERSION - 1, MESSAGE_VERSION},
            h \in {Unset} \cup 1..MaxHeight}

MalformedFrames ==
    \* a length prefix over the buffer size, whatever follows
    {Frame(ToLE(BufLen + 1, MESSAGE_LENGTH_PREFIX_SIZE),
           [idb |-> ToLE(5, 2), body |-> Garbage(0)], c) : c \in BOOLEAN}
    \* a payload that has not arrived in full
    \cup {Frame(ToLE(BufLen, MESSAGE_LENGTH_PREFIX_SIZE),
                [idb |-> ToLE(5, 2), body |-> Garbage(0)], FALSE)}
    \* a message ID the crawler does not accept, with any body
    \cup {Frame(ToLE(2 + b.size, MESSAGE_LENGTH_PREFIX_SIZE),
                [idb |-> ToLE(id, 2), body |-> b], TRUE) :
            id \in {9, 261},
            b \in {Garbage(5), EncodeBody(Message("PeerResponse", {1}, 0, Unset, 1))}}
    \* an accepted message ID with a body that does not deserialize
    \cup {Frame(ToLE(2 + 5, MESSAGE_LENGTH_PREFIX_SIZE),
                [idb |-> ToLE(6, 2), body |-> Garbage(5)], TRUE)}
    \* a payload shorter than a message ID
    \cup {Frame(ToLE(Len(bytes), MESSAGE_LENGTH_PREFIX_SIZE),
                [idb |-> bytes, body |-> Garbage(0)], TRUE) :
            bytes \in {<< >>, <<5>>}}

InboundFrames == {WriteFrame(m) : m \in PeerMessages} \cup MalformedFrames

(***************************************************************************)
(* The session table and the transport.                                    *)
(***************************************************************************)
connected_addrs == {c \in ConnAddr : peers[c] # NoAddr}

get_peer_listening_addr(source) == peers[source]

\* the sessions whose peer declared listening address addr
ConnectedAddrsOf(addr) == {c \in ConnAddr : peers[c] = addr}

is_connected(addr) ==
    \/ addr \in connecting
    \/ \E c \in connected_addrs :
          /\ (peers[c] = addr \/ c = addr)
          /\ addr \in connected_addrs

\* an error out of read_message or process_message closes the session
CloseSession(table, c) == [table EXCEPT ![c] = NoAddr]

NoEv == [in |-> "-", read |-> "-", res |-> "-", sent |-> {}]

Event(in, read, res, sent) ==
    [in |-> in, read |-> read, res |-> res, sent |-> sent]

Send(to, kind) == {<<to, kind>>}

\* The length a frame declares and the message ID it carries, as the wire
\* format defines them.
DeclaredLen(f) ==
    f.prefix[1] + 256 * f.prefix[2] + 65536 * f.prefix[3] + 16777216 * f.prefix[4]

CarriedId(f) == f.idb[1] + 256 * f.idb[2]

\* What kind of input a frame is.
FrameClass(f) ==
    CASE DeclaredLen(f) > 65536 -> "oversize"
      [] DeclaredLen(f) <= 65536 /\ ~f.complete -> "partial"
      [] DeclaredLen(f) < 2 /\ f.complete -> "short"
      [] OTHER ->
          IF CarriedId(f) \notin {MessageId(k) : k \in Kinds} THEN "foreign"
          ELSE IF f.body.shape = "garbage" THEN "undecodable"
          ELSE IF CarriedId(f) = 7 /\ f.body.version < MESSAGE_VERSION
               THEN "outdated_ping"
          ELSE IF CarriedId(f) = 7 /\ f.body.header = Unset
               THEN "headerless_ping"
          ELSE KindOfId(CarriedId(f))

(***************************************************************************)
(* The handlers (crawler.rs, process_message and the helper methods).      *)
(***************************************************************************)
\* peer_addrs.retain(|addr| node.node().listening_addr().unwrap() != *addr)
retain(peer_addrs) == peer_addrs \ {Self}

\* peer_response_update without the call of update_connections
peer_response_update_no_edges(kn, listening_addr, peer_addrs, t) ==
    IF listening_addr # NoAddr
    THEN received_peers(kn, listening_addr, t)
    ELSE kn

\* peer_response_update without the call of received_peers
peer_response_update_not_marked(kn, listening_addr, peer_addrs, t) ==
    IF listening_addr # NoAddr
    THEN update_connections(kn, listening_addr, peer_addrs)
    ELSE kn

\* The Registry after the detached PeerResponse task's update, for a sender
\* whose listening address is listening_addr (NoAddr: not resolved).
peer_response_update(kn, listening_addr, peer_addrs, t) ==
    IF listening_addr # NoAddr
    THEN received_peers(update_connections(kn, listening_addr, peer_addrs),
                        listening_addr, t)
    ELSE kn

\* process_ping checking the version after the height is stored
process_ping_height_first(kn, source, version, block_height, t) ==
    LET stored == IF get_peer_listening_addr(source) # NoAddr
                  THEN update_height(kn, get_peer_listening_addr(source),
                                     block_height, t)
                  ELSE kn
    IN  IF version < MESSAGE_VERSION
        THEN [ok |-> FALSE, kn |-> stored, sent |-> {}]
        ELSE [ok |-> TRUE, kn |-> stored, sent |-> Send(source, "Pong")]

\* process_ping: [ok, kn, sent]
process_ping(kn, source, version, block_height, t) ==
    IF version < MESSAGE_VERSION
    THEN [ok |-> FALSE, kn |-> kn, sent |-> {}]
    ELSE [ok |-> TRUE,
          kn |-> IF get_peer_listening_addr(source) # NoAddr
                 THEN update_height(kn, get_peer_listening_addr(source),
                                    block_height, t)
                 ELSE kn,
          sent |-> Send(source, "Pong")]

\* process_message on a Handled message other than PeerResponse, and on an
\* Unhandled one: [res, kn, sent].  res is "ok", "err" (the session is
\* closed) or "panic" (unreachable!()).
process_message(kn, source, r, t) ==
    IF r.tag # "Handled" THEN [res |-> "ok", kn |-> kn, sent |-> {}]
    ELSE CASE r.msg.kind = "Disconnect" ->
                [res |-> "ok", kn |-> kn, sent |-> {}]
           [] r.msg.kind = "PeerRequest" ->
                [res |-> "ok", kn |-> kn, sent |-> Send(source, "PeerResponse")]
           [] r.msg.kind = "PeerResponse" ->
                [res |-> "ok", kn |-> kn, sent |-> {}]
           [] r.msg.kind = "Ping" ->
                IF r.msg.header = Unset
                THEN [res |-> "err", kn |-> kn, sent |-> {}]
                ELSE LET p == process_ping(kn, source, r.msg.version,
                                           r.msg.header, t)
                     IN  [res |-> IF p.ok THEN "ok" ELSE "err", kn |-> p.kn,
                          sent |-> p.sent]
           [] OTHER -> [res |-> "panic", kn |-> kn, sent |-> {}]

Task(source, peer_addrs) == [source |-> source, peer_addrs |-> peer_addrs]

\* task::spawn of a connect for every address of `launch`
Spawn(launch) == [a \in Addr |-> IF a \in launch THEN spawned[a] + 1 ELSE spawned[a]]

CanSpawn(launch) == attempts + Cardinality(launch) <= MaxAttempts

\* One frame of the session of connected address c: read_message, then
\* process_message.  A PeerResponse spawns the detached handler task.
Deliver(c, f) ==
    /\ peers[c] # NoAddr
    /\ LET r == read_message(f)
           spawns == r.tag = "Handled" /\ r.msg.kind = "PeerResponse"
       IN  /\ spawns => Cardinality(tasks) < MaxTasks
           /\ IF r.tag = "Err"
              THEN /\ peers' = CloseSession(peers, c)
                   /\ ev' = Event(FrameClass(f), r.tag, "err", {})
                   /\ UNCHANGED <<known_network, tasks>>
              ELSE IF r.tag = "None"
              THEN /\ ev' = Event(FrameClass(f), r.tag, "none", {})
                   /\ UNCHANGED <<known_network, tasks, peers>>
              ELSE LET p == process_message(known_network, c, r, now)
                   IN  /\ known_network' = p.kn
                       /\ peers' = IF p.res = "ok" THEN peers
                                   ELSE CloseSession(peers, c)
                       /\ tasks' = IF spawns
                                   THEN tasks \cup {Task(c, r.msg.addrs)}
                                   ELSE tasks
                       /\ ev' = Event(FrameClass(f), r.tag, p.res, p.sent)
    /\ UNCHANGED <<connecting, spawned, churn, now, wire, rd, attempts>>

\* the requests still pending once the sessions of `table` are the open ones
Pending(reqs, table) == {c \in reqs : table[c] # NoAddr}

\* A peer sends any frame at any time, asked or not.
Receive(c, f) ==
    /\ frames < MaxFrames
    /\ frames' = frames + 1
    /\ Deliver(c, f)
    /\ requests' = Pending(requests, peers')

\* The addresses the PeerResponse task launches a connect to.
peer_response_connects(kn, peer_addrs, t) ==
    {addr \in peer_addrs :
        ~is_connected(addr) /\ should_be_connected_to(kn, addr, t)}

\* The addresses the task of a PeerResponse launches a connect to.
task_connects(t) ==
    peer_response_connects(
        peer_response_update(known_network, get_peer_listening_addr(t.source),
                             retain(t.peer_addrs), now),
        retain(t.peer_addrs), now)

\* The detached task of process_peer_response: drop the crawler's own
\* address, resolve the sender, update the Registry, then connect to the
\* listed addresses that are not connected and should be crawled.
RunTask(t) ==
    /\ t \in tasks
    /\ known_network' = peer_response_update(known_network,
                                             get_peer_listening_addr(t.source),
                                             retain(t.peer_addrs), now)
    /\ spawned' = Spawn(task_connects(t))
    /\ ev' = Event("peer_response_task", "-",
                   IF get_peer_listening_addr(t.source) = NoAddr
                   THEN "skipped" ELSE "ok", {})
    /\ tasks' = tasks \ {t}
    /\ UNCHANGED <<peers, connecting, churn, now, wire, rd, frames, requests>>

PeerResponseTask(t) ==
    /\ RunTask(t)
    /\ CanSpawn(task_connects(t))
    /\ attempts' = attempts + Cardinality(task_connects(t))

(***************************************************************************)
(* A detached connect task: node().connect(addr), then a PeerRequest on    *)
(* success and update_timestamp(addr) on failure.                          *)
(***************************************************************************)
\* the task starts; the transport refuses its own address, an address it
\* is connecting to and an address it is connected to
ConnectStart(addr) ==
    /\ spawned[addr] > 0
    /\ spawned' = [spawned EXCEPT ![addr] = @ - 1]
    /\ IF addr = Self \/ addr \in connecting \/ addr \in connected_addrs
       THEN /\ known_network' = update_timestamp(known_network, addr, now)
            /\ ev' = Event("connect", "-", "err", {})
            /\ UNCHANGED connecting
       ELSE /\ connecting' = connecting \cup {addr}
            /\ ev' = NoEv
            /\ UNCHANGED known_network
    /\ UNCHANGED <<peers, tasks, churn, now, wire, rd, frames, attempts, requests>>

\* ConnectOk calling update_timestamp as the failure branch does
ConnectOkTimestamped(addr) ==
    /\ addr \in connecting
    /\ connecting' = connecting \ {addr}
    /\ peers' = [peers EXCEPT ![addr] = addr]
    /\ known_network' = update_timestamp(known_network, addr, now)
    /\ ev' = Event("connect", "-", "ok", Send(addr, "PeerRequest"))
    /\ requests' = requests \cup {addr}
    /\ UNCHANGED <<spawned, tasks, churn, now, wire, rd, frames, attempts>>

\* the connect succeeds: the session is open, a PeerRequest is sent
ConnectOk(addr) ==
    /\ addr \in connecting
    /\ connecting' = connecting \ {addr}
    /\ peers' = [peers EXCEPT ![addr] = addr]
    /\ ev' = Event("connect", "-", "ok", Send(addr, "PeerRequest"))
    /\ requests' = requests \cup {addr}
    /\ UNCHANGED <<known_network, spawned, tasks, churn, now, wire, rd, frames,
                   attempts>>

ConnectFail(addr) ==
    /\ addr \in connecting
    /\ connecting' = connecting \ {addr}
    /\ known_network' = update_timestamp(known_network, addr, now)
    /\ ev' = Event("connect", "-", "err", {})
    /\ UNCHANGED <<peers, spawned, tasks, churn, now, wire, rd, frames, attempts,
                   requests>>

(***************************************************************************)
(* The churn task (update_peers): prune, explore, gossip, sleep.           *)
(***************************************************************************)
\* choose_multiple: `amount` elements of the set, all of it when smaller
choose_multiple(S, amount) ==
    {T \in SUBSET S : Cardinality(T) = IF Cardinality(S) < amount
                                        THEN Cardinality(S) ELSE amount}

\* The sessions the prune loop may close for the addresses in D: for each
\* address with a session, one session of that listening address.
PruneChoices(D) ==
    {closed \in SUBSET connected_addrs :
        /\ \A c \in closed : peers[c] \in D
        /\ \A addr \in D :
              ConnectedAddrsOf(addr) # {} =>
                  Cardinality(closed \cap ConnectedAddrsOf(addr)) = 1}

\* ChurnPrune leaving the sessions open
ChurnPruneKeepsSessions ==
    /\ churn = "prune"
    /\ churn' = "explore"
    /\ known_network' = after_addrs_to_disconnect(known_network)
    /\ ev' = Event("prune", "-", "ok", {})
    /\ UNCHANGED <<peers, connecting, spawned, tasks, now, wire, rd, frames, attempts,
                   requests>>

\* ChurnPrune disconnecting from every node of the Registry
ChurnPruneAllNodes ==
    /\ churn = "prune"
    /\ churn' = "explore"
    /\ known_network' = after_addrs_to_disconnect(known_network)
    /\ \E closed \in PruneChoices(NodeSet(known_network)) :
          /\ peers' = [c \in ConnAddr |-> IF c \in closed THEN NoAddr ELSE peers[c]]
          /\ requests' = requests \ closed
    /\ ev' = Event("prune", "-", "ok", {})
    /\ UNCHANGED <<connecting, spawned, tasks, now, wire, rd, frames, attempts>>

\* ChurnPrune forgetting the nodes it disconnects from
ChurnPruneForget ==
    /\ churn = "prune"
    /\ churn' = "explore"
    /\ known_network' =
          [known_network EXCEPT !.nodes =
              [a \in Addr |->
                  IF a \in addrs_to_disconnect(known_network)
                  THEN Absent ELSE known_network.nodes[a]]]
    /\ \E closed \in PruneChoices(addrs_to_disconnect(known_network)) :
          /\ peers' = [c \in ConnAddr |-> IF c \in closed THEN NoAddr ELSE peers[c]]
          /\ requests' = requests \ closed
    /\ ev' = Event("prune", "-", "ok", {})
    /\ UNCHANGED <<connecting, spawned, tasks, now, wire, rd, frames, attempts>>

\* for addr in addrs_to_disconnect(): get_peer_connected_addr, disconnect
ChurnPrune ==
    /\ churn = "prune"
    /\ churn' = "explore"
    /\ known_network' = after_addrs_to_disconnect(known_network)
    /\ \E closed \in PruneChoices(addrs_to_disconnect(known_network)) :
          /\ peers' = [c \in ConnAddr |-> IF c \in closed THEN NoAddr ELSE peers[c]]
          /\ requests' = requests \ closed
    /\ ev' = Event("prune", "-", "ok", {})
    /\ UNCHANGED <<connecting, spawned, tasks, now, wire, rd, frames, attempts>>

\* explore_connects with the test of is_connected inverted
explore_connects_inverted(sample) == {addr \in sample : is_connected(addr)}

\* The addresses of a sample the explore loop launches a connect to.
explore_connects(sample) == {addr \in sample : ~is_connected(addr)}

\* The explore loop over a sample: connect in a detached task unless
\* is_connected(addr).
Explore(sample) ==
    /\ churn = "explore"
    /\ churn' = "gossip"
    /\ spawned' = Spawn(explore_connects(sample))
    /\ ev' = Event("explore", "-", "ok", {})
    /\ UNCHANGED <<known_network, peers, connecting, tasks, now, wire, rd, frames,
                   requests>>

\* ChurnExplore sampling every known address instead of addrs_to_connect()
ChurnExploreAllKnown ==
    \E sample \in choose_multiple(NodeSet(known_network),
                                  NUM_CONCURRENT_CONNECTION_ATTEMPTS) :
        /\ Explore(sample)
        /\ CanSpawn(explore_connects(sample))
        /\ attempts' = attempts + Cardinality(explore_connects(sample))

\* for addr in addrs_to_connect().choose_multiple(..)
ChurnExplore ==
    \E sample \in choose_multiple(addrs_to_connect(known_network, now),
                                  NUM_CONCURRENT_CONNECTION_ATTEMPTS) :
        /\ Explore(sample)
        /\ CanSpawn(explore_connects(sample))
        /\ attempts' = attempts + Cardinality(explore_connects(sample))

\* ChurnGossip broadcasting in place of the explore loop
ChurnGossipBeforeExplore ==
    /\ churn = "explore"
    /\ churn' = "sleep"
    /\ ev' = Event("gossip", "-", "ok", {<<c, "PeerRequest">> : c \in connected_addrs})
    /\ requests' = requests \cup connected_addrs
    /\ UNCHANGED <<known_network, peers, connecting, spawned, tasks, now, wire, rd, frames, attempts>>

\* node.send_broadcast(ClientMessage::PeerRequest), then sleep
ChurnGossip ==
    /\ churn = "gossip"
    /\ churn' = "sleep"
    /\ ev' = Event("gossip", "-", "ok", {<<c, "PeerRequest">> : c \in connected_addrs})
    /\ requests' = requests \cup connected_addrs
    /\ UNCHANGED <<known_network, peers, connecting, spawned, tasks, now, wire, rd, frames, attempts>>

\* tokio::time::sleep(PEER_INTERVAL_SECS) returns: one interval has passed
ChurnWake ==
    /\ churn = "sleep"
    /\ now < MaxTime
    /\ now' = now + 1
    /\ churn' = "prune"
    /\ ev' = NoEv
    /\ UNCHANGED <<known_network, peers, connecting, spawned, tasks, wire, rd, frames, attempts,
                   requests>>

(***************************************************************************)
(* The environment: peers connect and hang up.                             *)
(***************************************************************************)
\* a peer opens a session and declares its listening address
Inbound(listening_addr) ==
    /\ peers[Eph] = NoAddr
    /\ peers' = [peers EXCEPT ![Eph] = listening_addr]
    /\ ev' = NoEv
    /\ UNCHANGED <<known_network, connecting, spawned, tasks, churn, now, wire, rd, frames, attempts,
                   requests>>

\* the peer or the transport ends a session
Hangup(c) ==
    /\ peers[c] # NoAddr
    /\ peers' = CloseSession(peers, c)
    /\ ev' = NoEv
    /\ requests' = requests \ {c}
    /\ UNCHANGED <<known_network, connecting, spawned, tasks, churn, now, wire, rd, frames, attempts>>

(***************************************************************************)
(* The crawler.  Crawler::new leaves the Registry empty; a seed peer may   *)
(* be configured externally (specification 8, S1).                         *)
(***************************************************************************)
Seed == 1

Init ==
    /\ known_network \in {EmptyNetwork, observe_node(EmptyNetwork, Seed)}
    /\ peers = [c \in ConnAddr |-> NoAddr]
    /\ connecting = {}
    /\ spawned = [a \in Addr |-> 0]
    /\ tasks = {}
    /\ churn = "prune"
    /\ now = 0
    /\ ev = NoEv
    /\ wire = WriteFrame(Message("PeerRequest", {}, 0, Unset, 0))
    /\ rd = Result("None", NoMessage)
    /\ frames = 0
    /\ attempts = 0
    /\ requests = {}

Next ==
    \/ \E c \in ConnAddr, f \in InboundFrames : Receive(c, f)
    \/ \E t \in tasks : PeerResponseTask(t)
    \/ \E addr \in Addr : ConnectStart(addr)
    \/ \E addr \in Addr : ConnectOk(addr)
    \/ \E addr \in Addr : ConnectFail(addr)
    \/ ChurnPrune
    \/ ChurnExplore
    \/ ChurnGossip
    \/ ChurnWake
    \/ \E l \in Addr : Inbound(l)
    \/ \E c \in ConnAddr : Hangup(c)

Spec == Init /\ [][Next]_vars

(***************************************************************************)
(* The churn task alone, started over any Registry.  last_connected is     *)
(* kept by the Registry (known_network.rs); the crawler's own calls leave  *)
(* it as the Registry has it.                                              *)
(***************************************************************************)
NodeStates == {"Unknown", "PendingDisconnect", "Idle"}

\* what the Registry may hold for an address; the crawler's own address
\* can be a node as well (a peer may declare it, OwnAddressNeverStored)
NodeMetas ==
    {Absent} \cup
    {[NewNode EXCEPT !.last_connected = lc, !.state = st,
                     !.received_peers = (st # "Unknown")] :
        lc \in {Unset} \cup 0..(MaxTime - 1), st \in NodeStates}

Registries ==
    {[nodes |-> n, connections |-> {}] : n \in [Addr -> NodeMetas]}

\* the sessions the crawler has opened to nodes of the Registry
SessionTables(kn) ==
    {table \in [ConnAddr -> Peers \cup {NoAddr}] :
        /\ table[Eph] = NoAddr
        /\ \A c \in Peers : table[c] # NoAddr => table[c] = c /\ c \in NodeSet(kn)}

ChurnInit ==
    /\ known_network \in Registries
    /\ peers \in SessionTables(known_network)
    /\ connecting = {}
    /\ spawned = [a \in Addr |-> 0]
    /\ tasks = {}
    /\ churn = "prune"
    /\ now = 0
    /\ ev = NoEv
    /\ wire = WriteFrame(Message("PeerRequest", {}, 0, Unset, 0))
    /\ rd = Result("None", NoMessage)
    /\ frames = 0
    /\ attempts = 0
    /\ requests = {}

ChurnNext ==
    \/ ChurnPrune
    \/ ChurnExplore
    \/ ChurnGossip
    \/ ChurnWake

ChurnSpec == ChurnInit /\ [][ChurnNext]_vars

(***************************************************************************)
(* The codec alone: a message is written as a frame, the frame is read.    *)
(***************************************************************************)
\* body lengths up to the largest the buffer holds, and one more
BodySizes == {0, 1, 253, 254, 255, 256, 65531, 65532, 65533, BufLen - 2, BufLen - 1}

CodecMessages ==
    {Message(kind, P, v, h, n) :
        kind \in Kinds \ {"PeerResponse", "Ping"}, P \in {{}}, v \in {0},
        h \in {Unset}, n \in BodySizes}
    \cup {Message("PeerResponse", P, 0, Unset, n) :
            P \in SUBSET Addr, n \in BodySizes}
    \cup {Message("Ping", {}, v, h, n) :
            v \in {MESSAGE_VERSION - 1, MESSAGE_VERSION},
            h \in {Unset} \cup 1..MaxHeight, n \in BodySizes}

CodecInit ==
    /\ known_network = EmptyNetwork
    /\ peers = [c \in ConnAddr |-> NoAddr]
    /\ connecting = {}
    /\ spawned = [a \in Addr |-> 0]
    /\ tasks = {}
    /\ churn = "prune"
    /\ now = 0
    /\ ev = NoEv
    /\ wire = WriteFrame(Message("PeerRequest", {}, 0, Unset, 0))
    /\ rd = Result("None", NoMessage)
    /\ frames = 0
    /\ attempts = 0
    /\ requests = {}

\* the peer writes m; ev holds the message handed to the writer
CodecWrite(m) ==
    /\ ev.in # "written"
    /\ wire' = WriteFrame(m)
    /\ rd' = Result("None", NoMessage)
    /\ ev' = Event("written", "-", "ok", {m})
    /\ UNCHANGED <<known_network, peers, connecting, spawned, tasks, churn, now,
                   frames, attempts, requests>>

\* the crawler reads the frame
CodecRead ==
    /\ ev.in = "written"
    /\ rd' = read_message(wire)
    /\ ev' = Event("read", read_message(wire).tag, "ok", ev.sent)
    /\ UNCHANGED <<known_network, peers, connecting, spawned, tasks, churn, now,
                   wire, frames, attempts, requests>>

CodecNext ==
    \/ \E m \in CodecMessages : CodecWrite(m)
    \/ CodecRead

CodecSpec == CodecInit /\ [][CodecNext]_vars

(***************************************************************************)
(* The Registry alone, under any sequence of update_connections.           *)
(***************************************************************************)
RegistryInit ==
    /\ known_network = EmptyNetwork
    /\ peers = [c \in ConnAddr |-> NoAddr]
    /\ connecting = {}
    /\ spawned = [a \in Addr |-> 0]
    /\ tasks = {}
    /\ churn = "prune"
    /\ now = 0
    /\ ev = NoEv
    /\ wire = WriteFrame(Message("PeerRequest", {}, 0, Unset, 0))
    /\ rd = Result("None", NoMessage)
    /\ frames = 0
    /\ attempts = 0
    /\ requests = {}

RegistryUpdate(src, addrs) ==
    /\ frames < MaxUpdates
    /\ frames' = frames + 1
    /\ known_network' = update_connections(known_network, src, addrs)
    /\ ev' = Event("update_connections", "-", "ok", {<<src, addrs>>})
    /\ UNCHANGED <<peers, connecting, spawned, tasks, churn, now, wire, rd,
                   attempts, requests>>

RegistryNext == \E src \in Addr, addrs \in SUBSET Addr : RegistryUpdate(src, addrs)

RegistrySpec == RegistryInit /\ [][RegistryNext]_vars

(***************************************************************************)
(* The crawler among peers that accept every connection and answer every   *)
(* PeerRequest with their peers.  The run is not cut short: the clock      *)
(* stops at MaxTime while the churn task goes on, and instead of the       *)
(* run-wide budgets at most MaxPending connect tasks per address wait to   *)
(* start.                                                                  *)
(***************************************************************************)
\* the peers a peer reports: its neighbours on a line, and the crawler
PeersOf(p) == {Self} \cup {q \in Peers : q = p - 1 \/ q = p + 1}

\* the frame a peer answers a PeerRequest with
PeerResponseOf ==
    [p \in Peers |->
        WriteFrame(Message("PeerResponse", PeersOf(p), 0, Unset,
                           Cardinality(PeersOf(p))))]

LiveInit ==
    /\ known_network = observe_node(EmptyNetwork, Seed)
    /\ peers = [c \in ConnAddr |-> NoAddr]
    /\ connecting = {}
    /\ spawned = [a \in Addr |-> 0]
    /\ tasks = {}
    /\ churn = "prune"
    /\ now = 0
    /\ ev = NoEv
    /\ wire = WriteFrame(Message("PeerRequest", {}, 0, Unset, 0))
    /\ rd = Result("None", NoMessage)
    /\ frames = 0
    /\ attempts = 0
    /\ requests = {}

\* the peer of session c answers a PeerRequest; the crawler reads the answer
Answer(c) ==
    /\ c \in requests
    /\ Deliver(c, PeerResponseOf[peers[c]])
    /\ requests' = Pending(requests \ {c}, peers')
    /\ UNCHANGED frames

RoomFor(launch) == \A a \in launch : spawned[a] < MaxPending

LiveTask(t) ==
    /\ RunTask(t)
    /\ RoomFor(task_connects(t))
    /\ UNCHANGED attempts

LiveExplore(sample) ==
    /\ sample \in choose_multiple(addrs_to_connect(known_network, now),
                                  NUM_CONCURRENT_CONNECTION_ATTEMPTS)
    /\ Explore(sample)
    /\ RoomFor(explore_connects(sample))
    /\ UNCHANGED attempts

\* tokio::time::sleep(PEER_INTERVAL_SECS) returns
LiveWake ==
    /\ churn = "sleep"
    /\ now' = IF now < MaxTime THEN now + 1 ELSE now
    /\ churn' = "prune"
    /\ ev' = NoEv
    /\ UNCHANGED <<known_network, peers, connecting, spawned, tasks, wire, rd, frames, attempts,
                   requests>>

LiveNext ==
    \/ \E c \in ConnAddr : Answer(c)
    \/ \E t \in tasks : LiveTask(t)
    \/ \E addr \in Addr : ConnectStart(addr)
    \/ \E addr \in Addr : ConnectOk(addr)
    \/ ChurnPrune
    \/ \E sample \in SUBSET Addr : LiveExplore(sample)
    \/ ChurnGossip
    \/ LiveWake

\* Every task runs on: the churn task, the connect tasks, the PeerResponse
\* tasks and the peers.  A step the model's caps (MaxTasks, MaxPending)
\* hold back now and then is taken all the same, the program having no
\* such cap; and the sample of the explore loop is drawn at random, so an
\* address that is eligible again and again is drawn again and again.
Fairness ==
    /\ WF_vars(ChurnPrune)
    /\ SF_vars(\E sample \in SUBSET Addr : LiveExplore(sample))
    /\ \A a \in Addr :
          SF_vars(\E sample \in SUBSET Addr : a \in sample /\ LiveExplore(sample))
    /\ WF_vars(ChurnGossip)
    /\ WF_vars(LiveWake)
    /\ \A addr \in Addr : WF_vars(ConnectStart(addr)) /\ WF_vars(ConnectOk(addr))
    /\ \A c \in ConnAddr : SF_vars(Answer(c))
    /\ SF_vars(\E t \in tasks : LiveTask(t))

LiveSpec == LiveInit /\ [][LiveNext]_vars /\ Fairness

(***************************************************************************)
(* Properties.                                                             *)
(***************************************************************************)
\* The PeerResponse task taken in a step, with the sender's listening
\* address resolved.
Resolved(t) == t \in tasks /\ t \notin tasks' /\ peers[t.source] # NoAddr

\* C1: in every reachable state the crawler's own listening address is
\* neither a node of the Registry nor an endpoint of a stored edge.
OwnAddressNeverStored ==
    /\ Self \notin NodeSet(known_network)
    /\ Self \notin Endpoints(known_network)

\* C2: after the PeerResponse handler's update_connections(L, P) for a
\* sender resolved to L, for every p of P other than L and the crawler's own
\* address the edge {L, p} is stored and both L and p are nodes.
EdgesAfterUpdateConnections ==
    [][\A t \in tasks :
          Resolved(t) =>
              \A p \in t.peer_addrs \ {peers[t.source], Self} :
                  /\ {peers[t.source], p} \in Edges(known_network')
                  /\ {peers[t.source], p} \subseteq NodeSet(known_network')]_vars

\* a PeerResponse task has stored an edge from a resolved sender
EdgesStored ==
    /\ ev.in = "peer_response_task"
    /\ ev.res = "ok"
    /\ \E e \in Edges(known_network) : Cardinality(e) = 2 /\ Self \notin e

\* last_connected of addr is unset or at least REVISIT_INTERVAL before t
Due(kn, addr, t) ==
    \/ kn.nodes[addr].last_connected = Unset
    \/ t - kn.nodes[addr].last_connected >= REVISIT_INTERVAL

\* C3: every address addrs_to_connect() returns at time t has last_connected
\* unset or t - last_connected >= REVISIT_INTERVAL, and the churn task
\* launches a connection attempt to no other address.
SelectsOnlyDue ==
    [][/\ \A a \in addrs_to_connect(known_network, now) :
             Due(known_network, a, now)
       /\ (churn = "explore" /\ churn' = "gossip") =>
             \A a \in Addr :
                 spawned'[a] > spawned[a] => Due(known_network, a, now)]_vars

\* the explore step has launched an attempt and has passed over a known,
\* idle address whose last connect is within REVISIT_INTERVAL
PassedOverRecent ==
    /\ ev.in = "explore"
    /\ \E a \in NodeSet(known_network) :
          /\ ~Due(known_network, a, now)
          /\ known_network.nodes[a].state # "PendingDisconnect"
          /\ peers[a] = NoAddr
          /\ spawned[a] = 0
    /\ \E b \in Addr : spawned[b] > 0

\* the churn task's call of addrs_to_disconnect() in a step
Pruning == churn = "prune" /\ churn' = "explore"

RegistryMonotonic ==
    [][/\ NodeSet(known_network) \subseteq NodeSet(known_network')
       /\ known_network.connections \subseteq known_network'.connections]_vars

\* the prune step has disconnected from a node that is still stored, with
\* its edges
KeptAfterPrune ==
    /\ ev.in = "prune"
    /\ \E a \in NodeSet(known_network) :
          /\ known_network.nodes[a].state = "Idle"
          /\ \E e \in Edges(known_network) : a \in e

\* a connection attempt to addr fails in a step (update_timestamp(addr))
Fails(addr) ==
    \/ addr \in connecting /\ addr \notin connecting' /\ peers'[addr] = NoAddr
    \/ spawned'[addr] < spawned[addr] /\ connecting' = connecting

\* C6: after a connection attempt to a known address has failed, the
\* address is not in addrs_to_connect() within REVISIT_INTERVAL of the
\* failure; stated at the failure itself, where no time has passed.
ThrottledAfterFailure ==
    [][\A addr \in NodeSet(known_network) :
          Fails(addr) => addr \notin addrs_to_connect(known_network', now')]_vars

\* one frame is read in a step
Reads == frames' = frames + 1

\* a step closes exactly one session and touches no other
ClosesSession ==
    \E c \in connected_addrs : peers' = CloseSession(peers, c)

\* C7: a Ping whose version is lower than MESSAGE_VERSION ends in an error
\* that closes the session, leaves every Registry field unchanged and sends
\* no Pong.
OutdatedPingRejected ==
    [][(Reads /\ ev'.in = "outdated_ping") =>
          /\ ev'.res = "err"
          /\ ClosesSession
          /\ known_network' = known_network
          /\ ev'.sent = {}]_vars

\* an outdated Ping that carries a height has been read and refused
OutdatedPingRead ==
    /\ ev.in = "outdated_ping"
    /\ ev.read = "Handled"
    /\ ev.res = "err"

\* C8: a frame whose length prefix exceeds 65536 makes read_message return
\* an error that closes the session, with no payload decoded (no handler
\* runs, nothing is sent) and the Registry unchanged; an error on a frame
\* whose length prefix is at most 65536 comes from a payload or a Ping that
\* does not decode or from an outdated Ping, never from the frame's size,
\* and a frame of 65536 bytes that has not arrived in full is waited for.
OversizeRejected ==
    [][Reads =>
          /\ ev'.in = "oversize" =>
                /\ ev'.read = "Err"
                /\ ev'.res = "err"
                /\ ClosesSession
                /\ known_network' = known_network
                /\ tasks' = tasks
                /\ ev'.sent = {}
          /\ (ev'.in # "oversize" /\ (ev'.read = "Err" \/ ev'.res = "err")) =>
                ev'.in \in {"short", "undecodable", "outdated_ping",
                            "headerless_ping"}
          /\ ev'.in = "partial" => ev'.read = "None" /\ peers' = peers]_vars

\* an oversize frame has been refused
OversizeRead == ev.in = "oversize" /\ ev.read = "Err"

\* C10: a well-sized frame whose message ID is not an accepted one is read
\* as Unhandled whatever its body; processing it leaves the session open
\* and the Registry unchanged and sends nothing.
ForeignIdUnhandled ==
    [][(Reads /\ ev'.in = "foreign") =>
          /\ ev'.read = "Unhandled"
          /\ ev'.res = "ok"
          /\ peers' = peers
          /\ known_network' = known_network
          /\ tasks' = tasks
          /\ ev'.sent = {}]_vars

\* a frame with a foreign message ID has been read on a session that is
\* still open
ForeignIdRead ==
    /\ ev.in = "foreign"
    /\ ev.read = "Unhandled"
    /\ connected_addrs # {}

\* C9: for every message of an accepted kind whose encoded payload is at
\* most 65534 bytes long, writing the frame (4-byte little-endian length,
\* then the payload led by the 2-byte little-endian message ID) and reading
\* it with read_message yields Handled(m) with m the message written.
FrameRoundTrip ==
    ev.in = "read" =>
        \A m \in ev.sent :
            (MessageId(m.kind) \in ACCEPTED_MESSAGE_IDS
             /\ PayloadLen(Serialize(m)) <= 65534) =>
                /\ wire.prefix = ToLE(PayloadLen(Serialize(m)), 4)
                /\ wire.idb = ToLE(MessageId(m.kind), 2)
                /\ rd = Result("Handled", m)

\* a PeerResponse that lists addresses, with a payload of 65534 bytes, has
\* been written and read back
LargestRoundTrip ==
    /\ ev.in = "read"
    /\ rd.tag = "Handled"
    /\ rd.msg.kind = "PeerResponse"
    /\ rd.msg.addrs # {}
    /\ rd.msg.size = 65532

\* no handler task, connect task or churn step is in progress
Quiescent ==
    /\ tasks = {}
    /\ connecting = {}
    /\ \A a \in Addr : spawned[a] = 0
    /\ churn = "sleep"

EdgesWellFormed ==
    /\ \A e \in known_network.connections :
          /\ Cardinality(Edge(e)) = 2
          /\ Edge(e) \subseteq NodeSet(known_network)
    /\ \A e1, e2 \in known_network.connections :
          Edge(e1) = Edge(e2) => e1 = e2

\* {B, A} has just been inserted into a Registry that stores {A, B}
ReverseInserted ==
    /\ ev.in = "update_connections"
    /\ \E e \in known_network.connections :
          \E p \in ev.sent : p[1] = e[2] /\ e[1] \in p[2]

\* every node in PendingDisconnect has its received_peers flag set
PendingHasPeers(kn) ==
    \A a \in NodeSet(kn) :
        kn.nodes[a].state = "PendingDisconnect" => kn.nodes[a].received_peers

\* C13: a node in PendingDisconnect has received_peers = true, and the
\* prune step closes a session only of a peer that is in PendingDisconnect,
\* that is, whose PeerResponse was processed since the node last left that
\* state.
PruneOnlyAfterPeers ==
    [][/\ PendingHasPeers(known_network)
       /\ PendingHasPeers(known_network')
       /\ Pruning =>
             \A c \in connected_addrs :
                 peers'[c] = NoAddr =>
                     /\ peers[c] \in addrs_to_disconnect(known_network)
                     /\ known_network.nodes[peers[c]].received_peers]_vars

\* the prune step has left no session open, and a node that had sent its
\* peers is idle
PrunedAfterPeers ==
    /\ ev.in = "prune"
    /\ connected_addrs = {}
    /\ \E a \in NodeSet(known_network) :
          /\ known_network.nodes[a].received_peers
          /\ known_network.nodes[a].state = "Idle"
          /\ known_network.nodes[a].last_seen = now

\* the addresses a step launches a connection attempt to
Launched == {a \in Addr : spawned'[a] > spawned[a]}

\* C16: within a tick of the churn task the prune loop runs first, the
\* explore loop second and the PeerRequest broadcast last, and the next
\* tick starts only after the sleep; the explore loop launches at most
\* NUM_CONCURRENT_CONNECTION_ATTEMPTS attempts, no two of them to the same
\* address, all to addresses addrs_to_connect() returns in that tick.
TickInOrder ==
    [][/\ churn' # churn =>
             <<churn, churn'>> \in {<<"prune", "explore">>,
                                    <<"explore", "gossip">>,
                                    <<"gossip", "sleep">>,
                                    <<"sleep", "prune">>}
       /\ ev'.in = "prune" => Pruning
       /\ ev'.in = "explore" => churn = "explore" /\ churn' = "gossip"
       /\ ev'.in = "gossip" =>
             /\ churn = "gossip" /\ churn' = "sleep"
             /\ ev'.sent = {<<c, "PeerRequest">> : c \in connected_addrs}
             /\ Launched = {}
       /\ now' # now => churn = "sleep"
       /\ churn' # churn /\ ev'.in # "explore" => Launched = {}
       /\ ev'.in = "explore" =>
             /\ Cardinality(Launched) <= NUM_CONCURRENT_CONNECTION_ATTEMPTS
             /\ \A a \in Launched : spawned'[a] = spawned[a] + 1
             /\ Launched \subseteq addrs_to_connect(known_network, now)]_vars

\* the explore loop has just launched as many attempts as it may, out of
\* more addresses than that
FullSampleLaunched ==
    /\ ev.in = "explore"
    /\ churn = "gossip"
    /\ Cardinality({a \in Addr : spawned[a] = 1}) = NUM_CONCURRENT_CONNECTION_ATTEMPTS
    /\ Cardinality(addrs_to_connect(known_network, now)) > NUM_CONCURRENT_CONNECTION_ATTEMPTS

\* a connection attempt to addr succeeds in a step
Succeeds(addr) ==
    addr \in connecting /\ addr \notin connecting' /\ peers'[addr] # NoAddr

\* a connection attempt to addr ends in a step
AttemptEnds(addr) ==
    \/ addr \in connecting /\ addr \notin connecting'
    \/ spawned'[addr] < spawned[addr] /\ addr \notin connecting' \ connecting

\* C17: an attempt ends either in a session and a PeerRequest to the
\* address, the Registry untouched, or in update_timestamp(addr) with no
\* session and nothing sent; never both and never neither.
AttemptOutcome ==
    [][\A addr \in Addr :
          /\ AttemptEnds(addr) => (Succeeds(addr) # Fails(addr))
          /\ Succeeds(addr) =>
                /\ ev'.sent = Send(addr, "PeerRequest")
                /\ known_network' = known_network
          /\ Fails(addr) =>
                /\ ev'.sent = {}
                /\ peers' = peers
                /\ known_network' = update_timestamp(known_network, addr, now)]_vars

\* an attempt has just failed at an address an earlier attempt connected
BothOutcomes ==
    /\ ev.in = "connect"
    /\ ev.res = "err"
    /\ \E addr \in Peers :
          /\ peers[addr] = addr
          /\ addr \in NodeSet(known_network)
          /\ known_network.nodes[addr].last_seen = now

\* C18: the PeerResponse task of a sender that cannot be resolved to a
\* listening address does nothing: the Registry is left as it is (no node,
\* no edge, no received_peers, no PendingDisconnect) and no connection
\* attempt is launched for the listed addresses.
UnresolvedSkipped ==
    [][\A t \in tasks :
          tasks' = tasks \ {t} /\ ~Resolved(t) =>
              /\ known_network' = known_network
              /\ Launched = {}]_vars

\* the connection attempts to addr in flight: the connect tasks spawned
\* and not yet at the transport, and the one the transport is carrying out
InFlight(addr) == spawned[addr] + (IF addr \in connecting THEN 1 ELSE 0)

\* C19: at no time are two connection attempts to the same address in
\* flight together.
OneAttemptPerAddress == \A addr \in Addr : InFlight(addr) <= 1

\* C20: is_connected(addr) holds whenever a session has addr as its
\* listening or its connected address, so that no connection attempt is
\* launched to the listening address of a peer with an open session,
\* whichever side opened it.
NoAttemptToConnectedPeer ==
    [][/\ \A addr \in Addr :
             ConnectedAddrsOf(addr) # {} \/ addr \in connected_addrs =>
                 is_connected(addr)
       /\ \A addr \in Launched : ConnectedAddrsOf(addr) = {}]_vars

\* the peers gossip reaches from the addresses of S
RECURSIVE Gossip(_)
Gossip(S) ==
    LET T == S \cup UNION {PeersOf(p) \cap Peers : p \in S}
    IN  IF T = S THEN S ELSE Gossip(T)

Reachable == Gossip({Seed})

\* the edges the reachable peers report
Reported == UNION {{{p, q} : q \in PeersOf(p)} : p \in Reachable}

\* C14 as stated: with every task running on and every peer accepting and
\* answering, every peer gossip reaches from the seed is eventually a node
\* of the Registry and every edge such a peer reports is eventually
\* stored.
Discovery ==
    <>(/\ Reachable \subseteq NodeSet(known_network)
       /\ Reported \subseteq Edges(known_network))

\* C14, amended: every peer gossip reaches from the seed is eventually a
\* node of the Registry, and every edge such a peer reports to an address
\* other than the crawler's own, which the handler drops from the list, is
\* eventually stored.
DiscoveryAmongPeers ==
    <>(/\ Reachable \subseteq NodeSet(known_network)
       /\ {e \in Reported : Self \notin e} \subseteq Edges(known_network))

\* every reachable peer is a node, every edge among them is stored, and the
\* churn task has closed the sessions
Discovered ==
    /\ Reachable = Peers
    /\ Peers \subseteq NodeSet(known_network)
    /\ {e \in Reported : Self \notin e} \subseteq Edges(known_network)
    /\ {e \in Reported : Self \notin e} # {}
    /\ \E p \in Peers : Self \in PeersOf(p)
    /\ connected_addrs = {}
    /\ ev.in = "prune"

=============================================================================
